---- MODULE Spec2Model ----
(***************************************************************************)
(* Model of the utility scripts of tskit-rust:                             *)
(*   makedata.py                  - CLI driver around msprime.sim_ancestry *)
(*   python_scripts/read_tablesfile.py - prints population records         *)
(*   python/test_json_metadata.py, python/test_bincode_metadata.py         *)
(* Each script is a sequential program; pc is its position.  Calls into    *)
(* argparse, msprime and tskit are modelled by their effect on the state   *)
(* the scripts can observe (namespace, return value, exception, file).     *)
(***************************************************************************)
EXTENDS Integers, Sequences, FiniteSets, TLC

VARIABLES
    argv,      \* sys.argv[1:] of the running script
    fs,        \* the files on disk, by file
    pc,        \* position of the running script
    args,      \* makedata: the namespace parse_args returned
    ts,        \* the tree sequence / table collection the script holds
    stdout,    \* lines printed to standard output
    stderr,    \* what reached standard error (usage message, traceback)
    events,    \* the external calls made so far, in order
    simCalls,  \* the arguments of every msprime.sim_ancestry call
    dumpCalls, \* [path, ts] of every ts.dump call
    fi,        \* read_tablesfile: index of the file argument being processed
    pi,        \* read_tablesfile: index of the next population row to print
    loads,     \* the files loaded so far, in order
    test,      \* the test function that is running
    md,        \* the metadata object the running test holds
    results    \* [test, outcome] of every finished test function, in order

vars == <<argv, fs, pc, args, ts, stdout, stderr, events, simCalls, dumpCalls,
          fi, pi, loads, test, md, results>>

----------------------------------------------------------------------------
(* Bounds of the model *)

MaxArgv == 4      \* longest unstructured command line of makedata
MaxTrees == 2     \* largest num_trees a simulation returns
MaxFiles == 3     \* most file arguments of read_tablesfile
MaxTests == 3     \* most test functions run in one session
MaxTestsAfter == 2  \* most test functions run in a session after makedata.py

----------------------------------------------------------------------------
(* Python values *)

Py(k, s, n, e, items) == [k |-> k, s |-> s, n |-> n, e |-> e, items |-> items]
None == Py("none", "", 0, 0, <<>>)
PyInt(n) == Py("int", "", n, 0, <<>>)
\* a float m * 10^e, m not divisible by 10 (0.0 is m = 0, e = 0)
PyFloat(m, e) == Py("float", "", m, e, <<>>)
PyStr(s) == Py("str", s, 0, 0, <<>>)
PyBool(b) == Py("bool", "", IF b THEN 1 ELSE 0, 0, <<>>)
PyList(items) == Py("list", "", 0, 0, items)

RECURSIVE Normalize(_, _)
Normalize(m, e) ==
    IF m = 0 THEN PyFloat(0, 0)
    ELSE IF m % 10 = 0 THEN Normalize(m \div 10, e + 1)
    ELSE PyFloat(m, e)

----------------------------------------------------------------------------
(* Command-line words.  A word is a string; Chars gives its characters. *)

Flags == {"--nsamples", "--seqlen", "--recrate", "--popsize", "--treefile"}
Words == {"5", "-3", "2.5", "1e3", "abc"}
Tokens == Flags \cup {"-h"} \cup Words

Chars(w) ==
    CASE w = "--nsamples" -> <<"-", "-", "n", "s", "a", "m", "p", "l", "e", "s">>
      [] w = "--seqlen"   -> <<"-", "-", "s", "e", "q", "l", "e", "n">>
      [] w = "--recrate"  -> <<"-", "-", "r", "e", "c", "r", "a", "t", "e">>
      [] w = "--popsize"  -> <<"-", "-", "p", "o", "p", "s", "i", "z", "e">>
      [] w = "--treefile" -> <<"-", "-", "t", "r", "e", "e", "f", "i", "l", "e">>
      [] w = "-h"         -> <<"-", "h">>
      [] w = "5"          -> <<"5">>
      [] w = "-3"         -> <<"-", "3">>
      [] w = "2.5"        -> <<"2", ".", "5">>
      [] w = "1e3"        -> <<"1", "e", "3">>
      [] w = "0"          -> <<"0">>
      [] w = "1"          -> <<"1">>
      [] w = "2"          -> <<"2">>
      [] w = "4"          -> <<"4">>
      [] w = "6"          -> <<"6">>
      [] w = "0.1"        -> <<"0", ".", "1">>
      [] w = "-0.001"     -> <<"-", "0", ".", "0", "0", "1">>
      [] w = "abc"        -> <<"a", "b", "c">>
      [] w = "Jerome"     -> <<"J", "e", "r", "o", "m", "e">>
      [] OTHER            -> <<"?">>

DigitChars == {"0", "1", "2", "3", "4", "5", "6", "7", "8", "9"}

DigitVal(c) ==
    CASE c = "0" -> 0 [] c = "1" -> 1 [] c = "2" -> 2 [] c = "3" -> 3
      [] c = "4" -> 4 [] c = "5" -> 5 [] c = "6" -> 6 [] c = "7" -> 7
      [] c = "8" -> 8 [] c = "9" -> 9

AllDigits(cs) == \A i \in 1..Len(cs) : cs[i] \in DigitChars

RECURSIVE DigitsValue(_)
DigitsValue(cs) ==
    IF cs = <<>> THEN 0
    ELSE 10 * DigitsValue(SubSeq(cs, 1, Len(cs) - 1)) + DigitVal(cs[Len(cs)])

Signed(cs) == cs # <<>> /\ cs[1] \in {"-", "+"}
SignOf(cs) == IF cs # <<>> /\ cs[1] = "-" THEN -1 ELSE 1
Unsigned(cs) == IF Signed(cs) THEN Tail(cs) ELSE cs

\* int(w): an optional sign and at least one digit
IntOk(w) == Unsigned(Chars(w)) # <<>> /\ AllDigits(Unsigned(Chars(w)))
IntOf(w) == PyInt(SignOf(Chars(w)) * DigitsValue(Unsigned(Chars(w))))

\* float(w): an optional sign, digits with at most one point, at least one
\* digit, and an optional exponent: e, an optional sign, digits
FirstOf(cs, marks) ==
    IF \E i \in 1..Len(cs) : cs[i] \in marks
    THEN CHOOSE i \in 1..Len(cs) : cs[i] \in marks /\ \A j \in 1..(i - 1) : cs[j] \notin marks
    ELSE Len(cs) + 1
Before(cs, marks) == SubSeq(cs, 1, FirstOf(cs, marks) - 1)
After(cs, marks) == SubSeq(cs, FirstOf(cs, marks) + 1, Len(cs))
Mantissa(cs) == Unsigned(Before(cs, {"e", "E"}))
Exponent(cs) == After(cs, {"e", "E"})
HasExponent(cs) == FirstOf(cs, {"e", "E"}) <= Len(cs)
IntPart(ms) == Before(ms, {"."})
FracPart(ms) == After(ms, {"."})
\* digits, digits.digits, digits. or .digits
PointedOk(ms) ==
    /\ AllDigits(IntPart(ms))
    /\ AllDigits(FracPart(ms))
    /\ Len(IntPart(ms)) + Len(FracPart(ms)) >= 1
DecimalOk(cs) ==
    /\ PointedOk(Mantissa(cs))
    /\ HasExponent(cs) =>
          (Unsigned(Exponent(cs)) # <<>> /\ AllDigits(Unsigned(Exponent(cs))))
DecimalOf(cs) ==
    Normalize(SignOf(cs) * DigitsValue(IntPart(Mantissa(cs)) \o FracPart(Mantissa(cs))),
              (IF HasExponent(cs)
               THEN SignOf(Exponent(cs)) * DigitsValue(Unsigned(Exponent(cs)))
               ELSE 0) - Len(FracPart(Mantissa(cs))))
FloatOk(w) == DecimalOk(Chars(w))
FloatOf(w) == DecimalOf(Chars(w))

\* type=str keeps the word
StrOf(w) == PyStr(w)

----------------------------------------------------------------------------
(* makedata.py: make_parser *)

Dest(flag) ==
    CASE flag = "--nsamples" -> "nsamples"
      [] flag = "--seqlen"   -> "seqlen"
      [] flag = "--recrate"  -> "recrate"
      [] flag = "--popsize"  -> "popsize"
      [] flag = "--treefile" -> "treefile"

TypeOf(flag) ==
    CASE flag = "--nsamples" -> "int"
      [] flag = "--seqlen"   -> "float"
      [] flag = "--recrate"  -> "float"
      [] flag = "--popsize"  -> "int"
      [] flag = "--treefile" -> "str"

DefaultsShortSeqlen ==
    [nsamples |-> None,
     seqlen   |-> PyFloat(1, 7),
     recrate  |-> PyFloat(1, -9),
     popsize  |-> PyInt(10000),
     treefile |-> PyStr("treefile.trees")]

Defaults ==
    [nsamples |-> None,
     seqlen   |-> PyFloat(1, 8),
     recrate  |-> PyFloat(1, -9),
     popsize  |-> PyInt(10000),
     treefile |-> PyStr("treefile.trees")]

ConvertOk(flag, w) ==
    CASE TypeOf(flag) = "int"   -> IntOk(w)
      [] TypeOf(flag) = "float" -> FloatOk(w)
      [] TypeOf(flag) = "str"   -> TRUE

Convert(flag, w) ==
    CASE TypeOf(flag) = "int"   -> IntOf(w)
      [] TypeOf(flag) = "float" -> FloatOf(w)
      [] TypeOf(flag) = "str"   -> StrOf(w)

\* argparse: a word that starts with "-" is an option unless it looks like a
\* negative number, -digits or -digits.digits or -.digits (the parser has no
\* option that looks like one)
NegativeNumberLike(w) ==
    /\ Chars(w)[1] = "-"
    /\ AllDigits(IntPart(Tail(Chars(w))))
    /\ AllDigits(FracPart(Tail(Chars(w))))
    /\ IF FirstOf(Tail(Chars(w)), {"."}) <= Len(Tail(Chars(w)))
       THEN Len(FracPart(Tail(Chars(w)))) >= 1
       ELSE Len(IntPart(Tail(Chars(w)))) >= 1
IsOptionWord(w) == Chars(w)[1] = "-" /\ ~NegativeNumberLike(w)

\* parse_args(sys.argv[1:]): options are handled left to right; -h prints the
\* help and exits 0 when it is met; an option takes exactly one argument,
\* converted by its type; the last occurrence of an option wins; words no option
\* takes are reported (exit 2) after the whole line was read.
RECURSIVE ParseFrom(_, _, _, _)
ParseFrom(line, i, ns, extras) ==
    IF i > Len(line)
    THEN IF extras THEN [kind |-> "error", ns |-> ns] ELSE [kind |-> "ok", ns |-> ns]
    ELSE IF line[i] = "-h" THEN [kind |-> "help", ns |-> ns]
    ELSE IF line[i] \in Flags
    THEN IF i + 1 > Len(line) \/ IsOptionWord(line[i + 1])
         THEN [kind |-> "error", ns |-> ns]
         ELSE IF ~ConvertOk(line[i], line[i + 1])
         THEN [kind |-> "error", ns |-> ns]
         ELSE ParseFrom(line, i + 2,
                        [ns EXCEPT ![Dest(line[i])] = Convert(line[i], line[i + 1])],
                        extras)
    ELSE ParseFrom(line, i + 1, ns, TRUE)

parse_args(line) == ParseFrom(line, 1, Defaults, FALSE)

----------------------------------------------------------------------------
(* Files and tree sequences *)

\* one lexical unit of a metadata blob: its kind and its text
Lex(t, s) == [t |-> t, s |-> s]

NoSchema == "none"
JsonSchema == "json"

Kastore(nt, pops, inds, muts) ==
    [kind |-> "kastore", num_trees |-> nt, populations |-> pops,
     individuals |-> inds, mutations |-> muts,
     ind_schema |-> NoSchema, mut_schema |-> NoSchema]
NoFile == [Kastore(0, <<>>, <<>>, <<>>) EXCEPT !.kind = "absent"]
Garbage == [Kastore(0, <<>>, <<>>, <<>>) EXCEPT !.kind = "garbage"]
NoTs == [Kastore(0, <<>>, <<>>, <<>>) EXCEPT !.kind = "none"]

\* the path names the scripts meet, and the file each one names
TestFiles == {"with_json_metadata.trees", "with_bincode_metadata.trees"}
Files == TestFiles \cup {"treefile.trees", "a.tables", "b.tables", "empty.tables",
                         "notes.txt", "missing.tables"} \cup Words
Resolve(path) ==
    CASE path = "./with_json_metadata.trees" -> "with_json_metadata.trees"
      [] OTHER -> path

\* what msprime.sim_ancestry returns: one population, one individual per
\* sample with empty metadata, no mutations
PopRow(name) ==
    <<Lex("p", "{"), Lex("s", "name"), Lex("p", ":"), Lex("s", name), Lex("p", "}")>>

SimResult(call, nt) ==
    Kastore(nt, <<PopRow("pop_0")>>, [i \in 1..call.samples.n |-> <<>>], <<>>)

\* msprime rejects a call without samples, non-positive sizes and a sequence
\* length that is not a whole number
SimRejects(call) ==
    \/ call.samples.k = "none"
    \/ call.samples.n <= 0
    \/ call.sequence_length.n <= 0
    \/ call.sequence_length.e < 0
    \/ call.recombination_rate.n < 0
    \/ call.population_size.n <= 0

----------------------------------------------------------------------------
(* makedata.py: main *)

NoArgs == [nsamples |-> None, seqlen |-> None, recrate |-> None,
           popsize |-> None, treefile |-> None]

Line(src, n, row) == [src |-> src, n |-> n, row |-> row]

SimCallOneSample(a) ==
    [samples             |-> IF a.nsamples = None THEN PyInt(1) ELSE a.nsamples,
     sequence_length     |-> a.seqlen,
     recombination_rate  |-> a.recrate,
     population_size     |-> a.popsize]

SimCall(a) ==
    [samples             |-> a.nsamples,
     sequence_length     |-> a.seqlen,
     recombination_rate  |-> a.recrate,
     population_size     |-> a.popsize]

DumpPathFixed(a) == "with_json_metadata.trees"

DumpPath(a) == a.treefile.s

MkUnchanged == UNCHANGED <<argv, fi, pi, loads, test, md, results>>

\* line 23-24: parser = make_parser(); args = parser.parse_args(sys.argv[1:])
MkParse ==
    /\ pc = "mk_parse"
    /\ events' = Append(events, "parse")
    /\ LET r == parse_args(argv) IN
          \/ /\ r.kind = "ok"
             /\ args' = r.ns
             /\ pc' = "mk_sim"
             /\ UNCHANGED <<stdout, stderr>>
          \/ /\ r.kind = "help"
             /\ stdout' = Append(stdout, Line("help", 0, <<>>))
             /\ pc' = "mk_exit0"
             /\ UNCHANGED <<args, stderr>>
          \/ /\ r.kind = "error"
             /\ stderr' = Append(stderr, "usage")
             /\ pc' = "mk_exit2"
             /\ UNCHANGED <<args, stdout>>
    /\ UNCHANGED <<fs, ts, simCalls, dumpCalls>>
    /\ MkUnchanged

MkSimRetry ==
    /\ pc = "mk_sim"
    /\ events' = Append(events, "sim")
    /\ simCalls' = Append(simCalls, SimCall(args))
    /\ \/ /\ ~SimRejects(SimCall(args))
          /\ \E nt \in 1..MaxTrees : ts' = SimResult(SimCall(args), nt)
          /\ pc' = "mk_print"
          /\ UNCHANGED stderr
       \/ /\ stderr' = Append(stderr, "traceback")
          /\ pc' = IF Len(simCalls) = 0 THEN "mk_sim" ELSE "mk_raised"
          /\ UNCHANGED ts
    /\ UNCHANGED <<fs, args, stdout, dumpCalls>>
    /\ MkUnchanged

\* line 26-31: ts = msprime.sim_ancestry(...)
MkSim ==
    /\ pc = "mk_sim"
    /\ events' = Append(events, "sim")
    /\ simCalls' = Append(simCalls, SimCall(args))
    /\ \/ /\ ~SimRejects(SimCall(args))
          /\ \E nt \in 1..MaxTrees : ts' = SimResult(SimCall(args), nt)
          /\ pc' = "mk_print"
          /\ UNCHANGED stderr
       \/ /\ stderr' = Append(stderr, "traceback")
          /\ pc' = "mk_raised"
          /\ UNCHANGED ts
    /\ UNCHANGED <<fs, args, stdout, dumpCalls>>
    /\ MkUnchanged

MkPrintSamples ==
    /\ pc = "mk_print"
    /\ events' = Append(events, "print")
    /\ stdout' = Append(stdout, Line("num_trees", 1 + Len(ts.individuals), <<>>))
    /\ pc' = "mk_dump"
    /\ UNCHANGED <<fs, args, ts, stderr, simCalls, dumpCalls>>
    /\ MkUnchanged

\* line 33: print(ts.num_trees)
MkPrint ==
    /\ pc = "mk_print"
    /\ events' = Append(events, "print")
    /\ stdout' = Append(stdout, Line("num_trees", ts.num_trees, <<>>))
    /\ pc' = "mk_dump"
    /\ UNCHANGED <<fs, args, ts, stderr, simCalls, dumpCalls>>
    /\ MkUnchanged

\* line 35: ts.dump(args.treefile); a failed dump leaves the old file or a
\* partly written one
MkDump ==
    /\ pc = "mk_dump"
    /\ events' = Append(events, "dump")
    /\ dumpCalls' = Append(dumpCalls, [path |-> DumpPath(args), ts |-> ts])
    /\ \/ /\ fs' = [fs EXCEPT ![Resolve(DumpPath(args))] = ts]
          /\ pc' = "mk_done"
          /\ UNCHANGED stderr
       \/ /\ \/ fs' = fs
             \/ fs' = [fs EXCEPT ![Resolve(DumpPath(args))] = Garbage]
          /\ stderr' = Append(stderr, "traceback")
          /\ pc' = "mk_raised"
    /\ UNCHANGED <<args, ts, stdout, simCalls>>
    /\ MkUnchanged

NextMake == MkParse \/ MkSim \/ MkPrint \/ MkDump

----------------------------------------------------------------------------
(* The data files on disk *)

IndividualJson ==
    <<Lex("p", "{"), Lex("s", "name"), Lex("p", ":"), Lex("s", "Jerome"), Lex("p", ","),
      Lex("s", "phenotypes"), Lex("p", ":"), Lex("p", "["), Lex("n", "0"), Lex("p", ","),
      Lex("n", "1"), Lex("p", ","), Lex("n", "2"), Lex("p", ","), Lex("n", "0"),
      Lex("p", "]"), Lex("p", "}")>>

MutationJson ==
    <<Lex("p", "{"), Lex("s", "effect_size"), Lex("p", ":"), Lex("n", "-0.001"),
      Lex("p", ","), Lex("s", "dominance"), Lex("p", ":"), Lex("n", "0.1"), Lex("p", "}")>>

\* bincode: a string and a vector are a u64 length and their elements
IndividualBincode ==
    <<Lex("u64", "6"), Lex("utf8", "Jerome"), Lex("u64", "4"), Lex("i32", "0"),
      Lex("i32", "1"), Lex("i32", "2"), Lex("i32", "0")>>

MutationBincode == <<Lex("f64", "-0.001"), Lex("f64", "0.1")>>

InitFS ==
    [f \in Files |->
        CASE f = "with_json_metadata.trees" ->
                 Kastore(1, <<>>, <<IndividualJson>>, <<MutationJson>>)
          [] f = "with_bincode_metadata.trees" ->
                 Kastore(1, <<>>, <<IndividualBincode>>, <<MutationBincode>>)
          [] f = "a.tables" -> Kastore(0, <<PopRow("a0"), PopRow("a1")>>, <<>>, <<>>)
          [] f = "b.tables" -> Kastore(0, <<PopRow("b0")>>, <<>>, <<>>)
          [] f = "empty.tables" -> Kastore(0, <<>>, <<>>, <<>>)
          [] f = "notes.txt" -> Garbage
          [] OTHER -> NoFile]

NoMd == [k |-> "none", raw |-> <<>>, dict |-> <<>>]

InitCommon ==
    /\ fs = InitFS
    /\ args = NoArgs
    /\ ts = NoTs
    /\ stdout = <<>>
    /\ stderr = <<>>
    /\ events = <<>>
    /\ simCalls = <<>>
    /\ dumpCalls = <<>>
    /\ fi = 1
    /\ pi = 1
    /\ loads = <<>>
    /\ test = "none"
    /\ md = NoMd
    /\ results = <<>>

----------------------------------------------------------------------------
(* makedata.py run on its own *)

Opt(flag, w) == IF w = "" THEN <<>> ELSE <<flag, w>>

\* every option given or omitted, in the order of the help text
OptionLines ==
    {Opt("--nsamples", a) \o Opt("--seqlen", b) \o Opt("--recrate", c)
        \o Opt("--popsize", d) \o Opt("--treefile", e) :
        a \in {"", "5", "-3"}, b \in {"", "5", "2.5", "-3", "1e3"}, c \in {"", "2.5"},
        d \in {"", "5", "-3"}, e \in {"", "abc"}}

\* every line of at most MaxArgv words
WordLines == UNION {[1..n -> Tokens] : n \in 0..MaxArgv}

InitMake ==
    /\ argv \in OptionLines \cup WordLines
    /\ pc = "mk_parse"
    /\ InitCommon

SpecMake == InitMake /\ [][NextMake]_vars

----------------------------------------------------------------------------
(* Properties of makedata.py *)

MainOrder == <<"parse", "sim", "print", "dump">>
IsPrefix(a, b) == Len(a) <= Len(b) /\ a = SubSeq(b, 1, Len(a))

ParsedOk == pc \in {"mk_sim", "mk_print", "mk_dump", "mk_done", "mk_raised"}

\* the places of the command line where an option is given, and its last word
Given(flag) == {i \in 1..(Len(argv) - 1) : argv[i] = flag}
LastGiven(flag) == CHOOSE i \in Given(flag) : \A j \in Given(flag) : j <= i
WordFor(flag) == argv[LastGiven(flag) + 1]

\* C1: in a run of main() in which parsing, the simulation and the write all
\* succeed, exactly one simulation call is made, exactly one line, the
\* num_trees of the tree sequence that call returned, is printed, and exactly
\* one write is made, to the --treefile path, of that same tree sequence; the
\* calls happen in the order simulate, print, write.
C1_SimulatePrintWrite ==
    /\ IsPrefix(events, MainOrder)
    /\ pc = "mk_done" =>
          /\ events = MainOrder
          /\ Len(simCalls) = 1
          /\ Len(stdout) = 1
          /\ stdout[1].src = "num_trees"
          /\ stdout[1].n = ts.num_trees
          /\ Len(dumpCalls) = 1
          /\ dumpCalls[1].path = args.treefile.s
          /\ dumpCalls[1].ts = ts
          /\ fs[Resolve(dumpCalls[1].path)] = ts

C1_Witness == pc = "mk_done" /\ ts.num_trees = MaxTrees /\ stderr = <<>>

\* C2: after a successful parse each of seqlen, recrate, popsize, treefile
\* holds the converted word of its last occurrence on the command line, or its
\* default (1e8, 1e-9, 10000, "treefile.trees") when the flag is not given;
\* the simulation call and the dump receive exactly these values.
C2_Expected ==
    [seqlen   |-> IF Given("--seqlen") = {} THEN PyFloat(1, 8)
                  ELSE FloatOf(WordFor("--seqlen")),
     recrate  |-> IF Given("--recrate") = {} THEN PyFloat(1, -9)
                  ELSE FloatOf(WordFor("--recrate")),
     popsize  |-> IF Given("--popsize") = {} THEN PyInt(10000)
                  ELSE IntOf(WordFor("--popsize")),
     treefile |-> IF Given("--treefile") = {} THEN PyStr("treefile.trees")
                  ELSE PyStr(WordFor("--treefile"))]

C2_ParsedAndForwarded ==
    ParsedOk =>
       /\ args.seqlen = C2_Expected.seqlen
       /\ args.recrate = C2_Expected.recrate
       /\ args.popsize = C2_Expected.popsize
       /\ args.treefile = C2_Expected.treefile
       /\ \A i \in 1..Len(simCalls) :
             /\ simCalls[i].sequence_length = C2_Expected.seqlen
             /\ simCalls[i].recombination_rate = C2_Expected.recrate
             /\ simCalls[i].population_size = C2_Expected.popsize
       /\ \A i \in 1..Len(dumpCalls) : dumpCalls[i].path = C2_Expected.treefile.s

C2_Witness ==
    /\ pc = "mk_done"
    /\ Given("--seqlen") # {} /\ WordFor("--seqlen") = "5"
    /\ Given("--treefile") # {}
    /\ Given("--popsize") = {}
    /\ Given("--recrate") = {}
    /\ simCalls[1].sequence_length = PyFloat(5, 0)
    /\ simCalls[1].population_size = PyInt(10000)

Once(ev) == Cardinality({i \in 1..Len(events) : events[i] = ev}) <= 1

\* C3: a failure ends main(): after a usage error or a failed simulation
\* nothing was printed by main and no write was attempted; after a failed
\* write the simulation was called exactly once; no step is ever attempted
\* twice and no step follows a failure.
C3_FailurePropagates ==
    /\ \A ev \in {"parse", "sim", "print", "dump"} : Once(ev)
    /\ pc = "mk_exit2" =>
          /\ events = <<"parse">>
          /\ stdout = <<>> /\ simCalls = <<>> /\ dumpCalls = <<>> /\ fs = InitFS
    /\ (pc = "mk_raised" /\ dumpCalls = <<>>) =>
          /\ events = <<"parse", "sim">>
          /\ stdout = <<>> /\ fs = InitFS
    /\ (pc = "mk_raised" /\ dumpCalls # <<>>) =>
          /\ events = MainOrder
          /\ Len(simCalls) = 1 /\ Len(dumpCalls) = 1
    /\ pc \in {"mk_exit2", "mk_raised"} => ~ENABLED NextMake

C3_Witness == pc = "mk_raised" /\ dumpCalls # <<>> /\ fs # InitFS

\* C8: main() validates nothing: every successfully parsed namespace reaches
\* the simulation call, which is made once with the parsed nsamples (None when
\* the flag is omitted), seqlen, recrate and popsize, whatever their sign; an
\* error after parsing is raised by a library call.
C8_NoValidation ==
    ParsedOk =>
       /\ pc = "mk_sim" => (simCalls = <<>> /\ ENABLED MkSim)
       /\ pc # "mk_sim" =>
             /\ Len(simCalls) = 1
             /\ simCalls[1].samples =
                   (IF Given("--nsamples") = {} THEN None
                    ELSE IntOf(WordFor("--nsamples")))
             /\ simCalls[1].population_size = args.popsize
             /\ simCalls[1].sequence_length = args.seqlen
             /\ simCalls[1].recombination_rate = args.recrate
       /\ pc = "mk_raised" => events[Len(events)] \in {"sim", "dump"}

C8_Witness ==
    /\ pc = "mk_raised"
    /\ Len(simCalls) = 1
    /\ simCalls[1].samples = None
    /\ simCalls[1].population_size.n < 0
    /\ simCalls[1].sequence_length.n < 0

----------------------------------------------------------------------------
(* python_scripts/read_tablesfile.py *)

ReadPaths == {"a.tables", "b.tables", "empty.tables", "notes.txt", "missing.tables"}

RdUnchanged == UNCHANGED <<argv, fs, args, stderr, simCalls, dumpCalls, test, md, results>>

Loadable(f) == f.kind = "kastore"

PopLineFirst(t, i) == Line("row", 0, t.populations[1])

\* line 7: print(pop)
PopLine(t, i) == Line("row", 0, t.populations[i])

RdLoadSkip ==
    /\ pc = "rd_for"
    /\ \/ /\ fi > Len(argv)
          /\ pc' = "rd_done"
          /\ UNCHANGED <<ts, fi, pi, loads, events, stderr>>
       \/ /\ fi <= Len(argv)
          /\ loads' = Append(loads, argv[fi])
          /\ events' = Append(events, "load")
          /\ \/ /\ Loadable(fs[Resolve(argv[fi])])
                /\ ts' = fs[Resolve(argv[fi])]
                /\ pi' = 1
                /\ pc' = "rd_pops"
                /\ UNCHANGED <<fi, stderr>>
             \/ /\ fi' = fi + 1
                /\ UNCHANGED <<ts, pi, pc, stderr>>
    /\ UNCHANGED <<argv, fs, args, stdout, simCalls, dumpCalls, test, md, results>>

\* line 4-5: for f in sys.argv[1:]: tables = tskit.TableCollection.load(f)
RdLoad ==
    /\ pc = "rd_for"
    /\ \/ /\ fi > Len(argv)
          /\ pc' = "rd_done"
          /\ UNCHANGED <<ts, fi, pi, loads, events, stderr>>
       \/ /\ fi <= Len(argv)
          /\ loads' = Append(loads, argv[fi])
          /\ events' = Append(events, "load")
          /\ \/ /\ Loadable(fs[Resolve(argv[fi])])
                /\ ts' = fs[Resolve(argv[fi])]
                /\ pi' = 1
                /\ pc' = "rd_pops"
                /\ UNCHANGED <<fi, stderr>>
             \/ /\ stderr' = Append(stderr, "traceback")
                /\ pc' = "rd_raised"
                /\ UNCHANGED <<ts, fi, pi>>
    /\ UNCHANGED <<argv, fs, args, stdout, simCalls, dumpCalls, test, md, results>>

\* line 6-7: for pop in tables.populations: print(pop)
RdPrint ==
    /\ pc = "rd_pops"
    /\ \/ /\ pi <= Len(ts.populations)
          /\ stdout' = Append(stdout, PopLine(ts, pi))
          /\ events' = Append(events, "print")
          /\ pi' = pi + 1
          /\ UNCHANGED <<pc, fi>>
       \/ /\ pi > Len(ts.populations)
          /\ fi' = fi + 1
          /\ pc' = "rd_for"
          /\ UNCHANGED <<stdout, events, pi>>
    /\ UNCHANGED <<ts, loads>>
    /\ RdUnchanged

NextRead == RdLoad \/ RdPrint

InitRead ==
    /\ argv \in UNION {[1..n -> ReadPaths] : n \in 0..MaxFiles}
    /\ pc = "rd_for"
    /\ InitCommon

SpecRead == InitRead /\ [][NextRead]_vars

----------------------------------------------------------------------------
(* Properties of read_tablesfile.py *)

PopCount(path) == Len(InitFS[Resolve(path)].populations)

\* the rows of the populations tables of the first k file arguments, in order
RECURSIVE RowsOfFirst(_)
RowsOfFirst(k) ==
    IF k = 0 THEN <<>>
    ELSE RowsOfFirst(k - 1) \o InitFS[Resolve(argv[k])].populations

RECURSIVE CountOfFirst(_)
CountOfFirst(k) == IF k = 0 THEN 0 ELSE CountOfFirst(k - 1) + PopCount(argv[k])

Printed == [i \in 1..Len(stdout) |-> stdout[i].row]

\* C6: when every file argument loads, the output is exactly the population
\* rows of the files, file by file in command-line order and row by row in
\* table order, one line per row; the files are loaded once each in that order;
\* without arguments nothing is loaded or printed.
C6_PrintsEveryPopulation ==
    /\ pc = "rd_pops" =>
          Printed = RowsOfFirst(fi - 1) \o SubSeq(ts.populations, 1, pi - 1)
    /\ pc = "rd_done" =>
          /\ loads = argv
          /\ Printed = RowsOfFirst(Len(argv))
          /\ \A i \in 1..Len(stdout) : stdout[i].src = "row"
          /\ Len(stdout) = CountOfFirst(Len(argv))
          /\ stderr = <<>>
          /\ argv = <<>> => (loads = <<>> /\ stdout = <<>>)

C6_Witness ==
    /\ pc = "rd_done"
    /\ argv = <<"b.tables", "a.tables", "b.tables">>
    /\ Len(stdout) = 4

\* C9: when loading the k-th file argument fails the script ends there: the
\* rows of files 1..k-1 are printed, in order, and nothing else; files 1..k were
\* loaded and no other; a file that cannot be loaded is never passed over.
C9_LoadFailureStops ==
    /\ pc = "rd_raised" =>
          /\ Printed = RowsOfFirst(fi - 1)
          /\ loads = SubSeq(argv, 1, fi)
          /\ ~ENABLED NextRead
    /\ \A i \in 1..Len(loads) :
          ~Loadable(InitFS[Resolve(loads[i])]) => (i = Len(loads) /\ pc = "rd_raised")
    /\ \A i \in 1..Len(loads) : loads[i] = argv[i]

C9_Witness ==
    /\ pc = "rd_raised"
    /\ argv = <<"a.tables", "missing.tables", "b.tables">>
    /\ Len(stdout) = 2

----------------------------------------------------------------------------
(* Metadata codecs *)

RECURSIVE Pow10(_)
Pow10(k) == IF k <= 0 THEN 1 ELSE 10 * Pow10(k - 1)

\* a number in units of 1e-9
Nano(v) ==
    IF v.k = "int" THEN v.n * Pow10(9)
    ELSE IF v.e + 9 >= 0 THEN v.n * Pow10(v.e + 9)
    ELSE v.n \div Pow10(0 - (v.e + 9))

IsNumber(v) == v.k \in {"int", "float", "bool"}
Abs(x) == IF x < 0 THEN 0 - x ELSE x

\* numpy.isclose(a, b): |a - b| <= atol + rtol * |b|, atol = 1e-8, rtol = 1e-5
IsClose(a, b) == Abs(Nano(a) - Nano(b)) <= 10 + Abs(Nano(b)) \div 100000

\* Python ==: numbers by value, strings by text, lists element by element
ScalarEq(a, b) ==
    IF IsNumber(a) /\ IsNumber(b) THEN Nano(a) = Nano(b)
    ELSE a.k = b.k /\ a.s = b.s
PyEq(a, b) ==
    IF a.k = "list" /\ b.k = "list"
    THEN /\ Len(a.items) = Len(b.items)
         /\ \A i \in 1..Len(a.items) : ScalarEq(a.items[i], b.items[i])
    ELSE a.k # "list" /\ b.k # "list" /\ ScalarEq(a, b)

\* what a test holds after ts.individual(0).metadata and after decoding it
Bytes(raw) == [k |-> "bytes", raw |-> raw, dict |-> <<>>]
Dict(pairs) == [k |-> "dict", raw |-> <<>>, dict |-> pairs]
Raised == [k |-> "raised", raw |-> <<>>, dict |-> <<>>]

HasKey(m, key) == m.k = "dict" /\ \E i \in 1..Len(m.dict) : m.dict[i].key = key
Lookup(m, key) ==
    m.dict[CHOOSE i \in 1..Len(m.dict) :
              /\ m.dict[i].key = key
              /\ \A j \in 1..Len(m.dict) : m.dict[j].key = key => j <= i].val

P(c) == Lex("p", c)

\* a string, a number or a bare word; json knows true, false, null and Python
\* True, False, None
ScalarOk(lx, mode) ==
    \/ lx.t = "s"
    \/ lx.t = "n" /\ FloatOk(lx.s)
    \/ lx.t = "w" /\ mode = "json" /\ lx.s \in {"true", "false", "null"}
    \/ lx.t = "w" /\ mode = "python" /\ lx.s \in {"True", "False", "None"}
ScalarOf(lx) ==
    IF lx.t = "s" THEN PyStr(lx.s)
    ELSE IF lx.t = "n" THEN (IF IntOk(lx.s) THEN IntOf(lx.s) ELSE FloatOf(lx.s))
    ELSE IF lx.s \in {"true", "True"} THEN PyBool(TRUE)
    ELSE IF lx.s \in {"false", "False"} THEN PyBool(FALSE)
    ELSE None

NoValue == [ok |-> FALSE, v |-> None, next |-> 0]

\* the elements of a list, from position i (after "["); st is what may come
\* next: "first" (an element or the end), "value" (an element), "sep"
RECURSIVE ArrayFrom(_, _, _, _, _)
ArrayFrom(raw, i, acc, st, mode) ==
    IF i > Len(raw) THEN NoValue
    ELSE IF st = "sep"
    THEN IF raw[i] = P("]") THEN [ok |-> TRUE, v |-> PyList(acc), next |-> i + 1]
         ELSE IF raw[i] = P(",")
         THEN ArrayFrom(raw, i + 1, acc, IF mode = "python" THEN "first" ELSE "value", mode)
         ELSE NoValue
    ELSE IF raw[i] = P("]") /\ st = "first"
    THEN [ok |-> TRUE, v |-> PyList(acc), next |-> i + 1]
    ELSE IF ScalarOk(raw[i], mode)
    THEN ArrayFrom(raw, i + 1, Append(acc, ScalarOf(raw[i])), "sep", mode)
    ELSE NoValue

ValueAt(raw, i, mode) ==
    IF i > Len(raw) THEN NoValue
    ELSE IF raw[i] = P("[") THEN ArrayFrom(raw, i + 1, <<>>, "first", mode)
    ELSE IF ScalarOk(raw[i], mode) THEN [ok |-> TRUE, v |-> ScalarOf(raw[i]), next |-> i + 1]
    ELSE NoValue

NoObject == [ok |-> FALSE, pairs |-> <<>>, next |-> 0]

\* the members of an object, from position i (after "{")
RECURSIVE ObjectFrom(_, _, _, _, _)
ObjectFrom(raw, i, acc, st, mode) ==
    IF i > Len(raw) THEN NoObject
    ELSE IF st = "sep"
    THEN IF raw[i] = P("}") THEN [ok |-> TRUE, pairs |-> acc, next |-> i + 1]
         ELSE IF raw[i] = P(",")
         THEN ObjectFrom(raw, i + 1, acc, IF mode = "python" THEN "first" ELSE "value", mode)
         ELSE NoObject
    ELSE IF raw[i] = P("}") /\ st = "first"
    THEN [ok |-> TRUE, pairs |-> acc, next |-> i + 1]
    ELSE IF raw[i].t = "s" /\ i + 1 <= Len(raw) /\ raw[i + 1] = P(":")
    THEN LET val == ValueAt(raw, i + 2, mode) IN
            IF val.ok
            THEN ObjectFrom(raw, val.next, Append(acc, [key |-> raw[i].s, val |-> val.v]),
                            "sep", mode)
            ELSE NoObject
    ELSE NoObject

ObjectText(raw, mode) ==
    IF raw # <<>> /\ raw[1] = P("{")
    THEN LET obj == ObjectFrom(raw, 2, <<>>, "first", mode) IN
            IF obj.ok /\ obj.next = Len(raw) + 1 THEN Dict(obj.pairs) ELSE Raised
    ELSE Raised

\* the json codec of a metadata schema: json.loads, empty bytes are {}
JsonLoads(raw) == IF raw = <<>> THEN Dict(<<>>) ELSE ObjectText(raw, "json")

\* eval(bytes): the bytes as a Python expression; anything else is a TypeError
PyEval(m) == IF m.k = "bytes" THEN ObjectText(m.raw, "python") ELSE Raised

\* tskit_glue.decode_bincode_individual_metadata: a length-prefixed string and
\* a length-prefixed vector of i32
DecodeBincodeIndividual(m) ==
    IF /\ m.k = "bytes"
       /\ Len(m.raw) >= 3
       /\ m.raw[1].t = "u64" /\ m.raw[2].t = "utf8" /\ m.raw[3].t = "u64"
       /\ Len(Chars(m.raw[2].s)) = IntOf(m.raw[1].s).n
       /\ Len(m.raw) = 3 + IntOf(m.raw[3].s).n
       /\ \A j \in 4..Len(m.raw) : m.raw[j].t = "i32"
    THEN Dict(<<[key |-> "name", val |-> PyStr(m.raw[2].s)],
                [key |-> "phenotypes",
                 val |-> PyList([j \in 1..(Len(m.raw) - 3) |-> IntOf(m.raw[3 + j].s)])]>>)
    ELSE Raised

\* tskit_glue.decode_bincode_mutation_metadata: two f64
DecodeBincodeMutation(m) ==
    IF /\ m.k = "bytes"
       /\ Len(m.raw) = 2
       /\ m.raw[1].t = "f64" /\ m.raw[2].t = "f64"
    THEN Dict(<<[key |-> "effect_size", val |-> FloatOf(m.raw[1].s)],
                [key |-> "dominance", val |-> FloatOf(m.raw[2].s)]>>)
    ELSE Raised

----------------------------------------------------------------------------
(* python/test_json_metadata.py and python/test_bincode_metadata.py *)

JsonTests == {"json.test_individual_metadata",
              "json.test_individual_metadata_without_schema",
              "json.test_mutation_metadata",
              "json.test_mutation_metadata_without_schema"}
BincodeTests == {"bincode.test_individual_metadata", "bincode.test_mutation_metadata"}
TestNames == JsonTests \cup BincodeTests

IndividualTests == {"json.test_individual_metadata",
                    "json.test_individual_metadata_without_schema",
                    "bincode.test_individual_metadata"}
MutationTests == TestNames \ IndividualTests

\* setup_ts_without_schema: the file each module loads
DataFile(t) ==
    IF t \in JsonTests THEN "with_json_metadata.trees" ELSE "with_bincode_metadata.trees"

WithSchema(t) == t \in {"json.test_individual_metadata", "json.test_mutation_metadata"}

\* setup_ts_with_schema: a copy of the tables with a json schema on the
\* individuals and the mutations table, made into a tree sequence
SetupTsWithSchema(t0) == [t0 EXCEPT !.ind_schema = JsonSchema, !.mut_schema = JsonSchema]

\* ts.individual(0).metadata, ts.mutation(0).metadata: the row's bytes, decoded
\* when the table has a schema
RowMetadata(tseq, t) ==
    LET rows == IF t \in IndividualTests THEN tseq.individuals ELSE tseq.mutations
        schema == IF t \in IndividualTests THEN tseq.ind_schema ELSE tseq.mut_schema
    IN  IF Len(rows) < 1 THEN Raised
        ELSE IF schema = JsonSchema THEN JsonLoads(rows[1])
        ELSE Bytes(rows[1])

NeedsDecode(t) == ~WithSchema(t)

DecodeNoEval(t, m) ==
    IF t \in JsonTests THEN m
    ELSE IF t \in IndividualTests THEN DecodeBincodeIndividual(m)
    ELSE DecodeBincodeMutation(m)

\* eval(...) in the tests without schema, tskit_glue.decode_... in the bincode tests
Decode(t, m) ==
    IF t \in JsonTests THEN PyEval(m)
    ELSE IF t \in IndividualTests THEN DecodeBincodeIndividual(m)
    ELSE DecodeBincodeMutation(m)

ChecksSwapped(t) ==
    IF t \in IndividualTests
    THEN <<[key |-> "name", how |-> "eq", want |-> PyStr("Jerome")],
           [key |-> "phenotypes", how |-> "eq",
            want |-> PyList(<<PyInt(0), PyInt(1), PyInt(2), PyInt(0)>>)]>>
    ELSE <<[key |-> "effect_size", how |-> "close", want |-> PyFloat(1, -1)],
           [key |-> "dominance", how |-> "close", want |-> PyFloat(-1, -3)]>>

\* the two assert statements of a test
Checks(t) ==
    IF t \in IndividualTests
    THEN <<[key |-> "name", how |-> "eq", want |-> PyStr("Jerome")],
           [key |-> "phenotypes", how |-> "eq",
            want |-> PyList(<<PyInt(0), PyInt(1), PyInt(2), PyInt(0)>>)]>>
    ELSE <<[key |-> "effect_size", how |-> "close", want |-> PyFloat(-1, -3)],
           [key |-> "dominance", how |-> "close", want |-> PyFloat(1, -1)]>>

\* one assert: a missing key or a value of the wrong type raises
CheckOutcome(m, c) ==
    IF ~HasKey(m, c.key) THEN "raised"
    ELSE IF c.how = "eq"
    THEN (IF PyEq(Lookup(m, c.key), c.want) THEN "passed" ELSE "failed")
    ELSE IF ~IsNumber(Lookup(m, c.key)) THEN "raised"
    ELSE IF IsClose(Lookup(m, c.key), c.want) THEN "passed" ELSE "failed"

\* a test function as a function of the files it finds
RunTest(t, fsys) ==
    LET f == fsys[Resolve(DataFile(t))]
        t1 == IF WithSchema(t) THEN SetupTsWithSchema(f) ELSE f
        m0 == RowMetadata(t1, t)
        m == IF NeedsDecode(t) /\ m0.k # "raised" THEN Decode(t, m0) ELSE m0
        first == CheckOutcome(m, Checks(t)[1])
    IN  IF ~Loadable(f) \/ m.k = "raised" THEN "raised"
        ELSE IF first # "passed" THEN first
        ELSE CheckOutcome(m, Checks(t)[2])

TUnchanged == UNCHANGED <<argv, args, stdout, stderr, simCalls, dumpCalls, fi, pi>>

\* the test function returns or raises: its locals are gone
Finish(outcome, m) ==
    /\ results' = Append(results, [test |-> test, outcome |-> outcome, md |-> m])
    /\ test' = "none"
    /\ ts' = NoTs
    /\ md' = NoMd
    /\ pc' = "t_idle"

\* the test runner calls a test function, at most n in a session
Call(n) ==
    /\ pc = "t_idle"
    /\ Len(results) < n
    /\ \E t \in TestNames : test' = t
    /\ pc' = "t_load"
    /\ UNCHANGED <<fs, ts, md, results, loads, events>>
    /\ TUnchanged

TStart == Call(MaxTests)

\* setup_ts_without_schema: ts = tskit.TreeSequence.load(...)
TLoad ==
    /\ pc = "t_load"
    /\ loads' = Append(loads, DataFile(test))
    /\ events' = Append(events, "load")
    /\ \/ /\ Loadable(fs[Resolve(DataFile(test))])
          /\ ts' = fs[Resolve(DataFile(test))]
          /\ pc' = IF WithSchema(test) THEN "t_schema" ELSE "t_get"
          /\ UNCHANGED <<test, md, results>>
       \/ /\ ~Loadable(fs[Resolve(DataFile(test))])
          /\ Finish("raised", Raised)
    /\ UNCHANGED fs
    /\ TUnchanged

TSchemaDumps ==
    /\ pc = "t_schema"
    /\ ts' = SetupTsWithSchema(ts)
    /\ fs' = [fs EXCEPT ![Resolve(DataFile(test))] = SetupTsWithSchema(ts)]
    /\ pc' = "t_get"
    /\ UNCHANGED <<test, md, results, loads, events>>
    /\ TUnchanged

\* setup_ts_with_schema, after the load
TSchema ==
    /\ pc = "t_schema"
    /\ ts' = SetupTsWithSchema(ts)
    /\ pc' = "t_get"
    /\ UNCHANGED <<fs, test, md, results, loads, events>>
    /\ TUnchanged

\* md = ts.individual(0).metadata or ts.mutation(0).metadata
TGet ==
    /\ pc = "t_get"
    /\ LET m == RowMetadata(ts, test) IN
          IF m.k = "raised"
          THEN Finish("raised", Raised)
          ELSE /\ md' = m
               /\ pc' = IF NeedsDecode(test) THEN "t_decode" ELSE "t_assert1"
               /\ UNCHANGED <<ts, test, results>>
    /\ UNCHANGED <<fs, loads, events>>
    /\ TUnchanged

\* md = eval(...) or md = tskit_glue.decode_...(...)
TDecode ==
    /\ pc = "t_decode"
    /\ LET m == Decode(test, md) IN
          IF m.k = "raised"
          THEN Finish("raised", Raised)
          ELSE /\ md' = m
               /\ pc' = "t_assert1"
               /\ UNCHANGED <<ts, test, results>>
    /\ UNCHANGED <<fs, loads, events>>
    /\ TUnchanged

\* the first and the second assert
TAssert ==
    /\ pc \in {"t_assert1", "t_assert2"}
    /\ LET outcome == CheckOutcome(md, Checks(test)[IF pc = "t_assert1" THEN 1 ELSE 2]) IN
          IF outcome = "passed" /\ pc = "t_assert1"
          THEN /\ pc' = "t_assert2"
               /\ UNCHANGED <<ts, test, md, results>>
          ELSE Finish(outcome, md)
    /\ UNCHANGED <<fs, loads, events>>
    /\ TUnchanged

NextTests == TStart \/ TLoad \/ TSchema \/ TGet \/ TDecode \/ TAssert

InitTests ==
    /\ argv = <<>>
    /\ pc = "t_idle"
    /\ InitCommon

SpecTests == InitTests /\ [][NextTests]_vars

----------------------------------------------------------------------------
(* Properties of the test modules *)

ResultsOf(tests) == {i \in 1..Len(results) : results[i].test \in tests}

C10_NoSharedState ==
    /\ fs = InitFS
    /\ pc = "t_idle" => (ts = NoTs /\ md = NoMd /\ test = "none")
    /\ pc \in {"t_schema", "t_get", "t_decode", "t_assert1", "t_assert2"} =>
          /\ [ts EXCEPT !.ind_schema = NoSchema, !.mut_schema = NoSchema]
                = InitFS[Resolve(DataFile(test))]
          /\ (pc = "t_schema" \/ ~WithSchema(test)) =>
                ts = InitFS[Resolve(DataFile(test))]
    /\ \A i \in 1..Len(results) : results[i].outcome = RunTest(results[i].test, InitFS)
    /\ \A i, j \in 1..Len(results) :
          results[i].test = results[j].test => results[i] = results[j]
    /\ \A i \in 1..Len(results) : loads[i] = DataFile(results[i].test)
    /\ Len(loads) \in {Len(results), Len(results) + 1}

C10_Witness ==
    /\ Len(results) = 3
    /\ results[1].test = "json.test_individual_metadata"
    /\ results[2].test = "json.test_individual_metadata_without_schema"
    /\ results[3].test = "json.test_individual_metadata"
    /\ results[2].outcome = "passed"

----------------------------------------------------------------------------
(* makedata.py, then the tests: the scripts run one after the other in one
   directory *)

FlowPaths == {"", "abc", "with_json_metadata.trees", "./with_json_metadata.trees",
              "with_bincode_metadata.trees"}

FlowLines == {<<"--nsamples", "5">> \o Opt("--treefile", p) : p \in FlowPaths}
                \cup {<<"--treefile", "with_json_metadata.trees">>, <<"-h">>, <<"abc">>}

\* makedata.py has ended and the test runner starts; argv stays the command
\* line makedata.py was given
StartTests ==
    /\ pc \in {"mk_done", "mk_raised", "mk_exit0", "mk_exit2"}
    /\ pc' = "t_idle"
    /\ ts' = NoTs
    /\ args' = NoArgs
    /\ UNCHANGED <<argv, fs, stdout, stderr, events, simCalls, dumpCalls, fi, pi,
                   loads, test, md, results>>

TStartAfter == Call(MaxTestsAfter)

Next == NextMake \/ StartTests \/ TStartAfter \/ TLoad \/ TSchema \/ TGet \/ TDecode \/ TAssert

Init ==
    /\ \/ argv \in FlowLines /\ pc = "mk_parse"
       \/ argv = <<>> /\ pc = "t_idle"
    /\ InitCommon

Spec == Init /\ [][Next]_vars

GivenTreefile ==
    IF Given("--treefile") = {} THEN "treefile.trees" ELSE WordFor("--treefile")

NoFlow ==
    /\ \A i \in 1..Len(results) : results[i].outcome = RunTest(results[i].test, InitFS)
    /\ \A i \in 1..Len(loads) : \A j \in 1..Len(dumpCalls) :
          Resolve(loads[i]) # Resolve(dumpCalls[j].path)

\* C7 as stated: whatever --treefile path makedata.py was given, every test
\* has the outcome it has when makedata.py did not run, and no test loads a
\* file makedata.py wrote.
C7_NoFlowForEveryPath == NoFlow

\* C7, amended: when the --treefile path (or its default, treefile.trees) does
\* not name one of the two data files of the tests, every test has the outcome
\* it has when makedata.py did not run, and no test loads a file makedata.py
\* wrote.
C7_NoFlowUnlessDataFile == Resolve(GivenTreefile) \notin TestFiles => NoFlow

C7_Witness ==
    /\ Len(dumpCalls) = 1
    /\ fs # InitFS
    /\ Resolve(GivenTreefile) \notin TestFiles
    /\ Len(results) = 2
    /\ results[1].test = "json.test_mutation_metadata"
    /\ results[2].test = "bincode.test_individual_metadata"
    /\ results[2].outcome = "passed"

====
